---- MODULE Spec2Model ----
(***************************************************************************)
(* Availability scanning engine of escape_availability.js (second,         *)
(* concurrent version, lines 173-505): the global rate limiter, the retry  *)
(* executor, the per-room scan with its day loop, the per-room task and    *)
(* the p-limit pool driven by the main script.                             *)
(*                                                                         *)
(* Time is kept relative to the rate limiter: sinceLastRequest is          *)
(* min(Date.now() - _lastRequestAt, GLOBAL_MIN_REQUEST_INTERVAL_MS), and a *)
(* sleeping gate caller holds the part of its sleep that is still to run.  *)
(* Every other sleep is a step that may take any amount of time.           *)
(***************************************************************************)
EXTENDS Integers, Sequences, FiniteSets, TLC

\* ------------------------------------------------------------------------
\* Bounds of the model
\* ------------------------------------------------------------------------
MaxAttempts == 4      \* largest attempt budget given to a stand-alone withRetries
MaxRooms == 2         \* longest rooms list read from roomsToWatch.json

\* ------------------------------------------------------------------------
\* Program constants
\* ------------------------------------------------------------------------
GLOBAL_MIN_REQUEST_INTERVAL_MS == 1   \* env-configured, default 1500; the unit of time
JITTER_MS == 500                      \* randomInt(500) in withRetries
NAV_ATTEMPTS == 3
NAV_BASE_DELAY == 2000
CLICK_ATTEMPTS == 2
CLICK_BASE_DELAY == 300
SCAN_ATTEMPTS == 2
SCAN_BASE_DELAY == 1000
SLOT_LABEL_WIDTH == 5
MIN_DELAY_BETWEEN_CHECKS_MS == 2500
RANDOM_EXTRA_DELAY_MS == 1500

Min(a, b) == IF a < b THEN a ELSE b
Max(a, b) == IF a > b THEN a ELSE b

RECURSIVE Pow2(_)
Pow2(n) == IF n <= 0 THEN 1 ELSE 2 * Pow2(n - 1)

\* ------------------------------------------------------------------------
\* randomInt(max): Math.floor(Math.random() * Math.max(1, Math.floor(max))).
\* The values are sampled: both ends of the range and its middle.
\* ------------------------------------------------------------------------
randomInt(max) ==
  LET m == Max(1, max) IN {0, m \div 2, m - 1}

\* ------------------------------------------------------------------------
\* withRetries: the backoff before attempt+1 and the test for the last attempt
\* ------------------------------------------------------------------------
RetryWaitLinear(baseDelay, attempt, jitter) == baseDelay * attempt + jitter

RetryWait(baseDelay, attempt, jitter) == baseDelay * Pow2(attempt - 1) + jitter

IsLastAttemptOffByOne(attempt, attempts) == attempt > attempts

IsLastAttemptEarly(attempt, attempts) == attempt >= attempts - 1

IsLastAttempt(attempt, attempts) == attempt = attempts

\* ------------------------------------------------------------------------
\* Text of a list item: a sequence of characters.
\* li.textContent.trim(), .toLowerCase(), .includes("not available"), .slice(0, 5)
\* ------------------------------------------------------------------------
Whitespace == {" ", "\t", "\n"}

UpperCase == <<"A", "B", "C", "D", "E", "F", "G", "H", "I", "J", "K", "L", "M",
               "N", "O", "P", "Q", "R", "S", "T", "U", "V", "W", "X", "Y", "Z">>
LowerCase == <<"a", "b", "c", "d", "e", "f", "g", "h", "i", "j", "k", "l", "m",
               "n", "o", "p", "q", "r", "s", "t", "u", "v", "w", "x", "y", "z">>

RECURSIVE TrimStart(_)
TrimStart(s) ==
  IF s # <<>> /\ Head(s) \in Whitespace THEN TrimStart(Tail(s)) ELSE s

RECURSIVE TrimEnd(_)
TrimEnd(s) ==
  IF s # <<>> /\ s[Len(s)] \in Whitespace THEN TrimEnd(SubSeq(s, 1, Len(s) - 1)) ELSE s

Trim(s) == TrimEnd(TrimStart(s))

ToLowerCase(s) ==
  [n \in 1..Len(s) |->
     IF \E u \in 1..Len(UpperCase) : UpperCase[u] = s[n]
       THEN LowerCase[CHOOSE u \in 1..Len(UpperCase) : UpperCase[u] = s[n]]
       ELSE s[n]]

Includes(s, sub) ==
  \E n \in 0..(Len(s) - Len(sub)) : SubSeq(s, n + 1, n + Len(sub)) = sub

Slice(s, width) == SubSeq(s, 1, Min(width, Len(s)))

NotAvailableText ==
  <<"n", "o", "t", " ", "a", "v", "a", "i", "l", "a", "b", "l", "e">>

\* The filter of the slot scrape: the item is not flagged and its text is a slot.
IsOpenSlot(li) ==
  /\ "disabled" \notin li.classList
  /\ "list-group-item-danger" \notin li.classList
  /\ ~Includes(ToLowerCase(Trim(li.textContent)), NotAvailableText)
  /\ Len(Trim(li.textContent)) > 0

\* page.evaluate over `.time-selection li`: filter, then map to the 5-char label
ScrapeSlots(listItems) ==
  LET kept == SelectSeq(listItems, IsOpenSlot)
  IN [n \in 1..Len(kept) |-> Slice(Trim(kept[n].textContent), SLOT_LABEL_WIDTH)]

\* ------------------------------------------------------------------------
\* Dates: [day, month, year]; date.setDate(today.getDate() + offset)
\* ------------------------------------------------------------------------
IsLeapYear(y) == (y % 4 = 0 /\ y % 100 # 0) \/ y % 400 = 0

DaysInMonth(m, y) ==
  IF m = 2 THEN (IF IsLeapYear(y) THEN 29 ELSE 28)
  ELSE IF m \in {4, 6, 9, 11} THEN 30 ELSE 31

RECURSIVE SetDate(_, _)
SetDate(d, dayOfMonth) ==
  IF dayOfMonth > DaysInMonth(d.month, d.year)
    THEN SetDate(IF d.month = 12
                   THEN [day |-> 1, month |-> 1, year |-> d.year + 1]
                   ELSE [day |-> 1, month |-> d.month + 1, year |-> d.year],
                 dayOfMonth - DaysInMonth(d.month, d.year))
    ELSE [d EXCEPT !.day = dayOfMonth]

DateAtOffset(base, offset) == SetDate(base, base.day + offset)

Digit == <<"0", "1", "2", "3", "4", "5", "6", "7", "8", "9">>

RECURSIVE NumToString(_)
NumToString(n) ==
  IF n < 10 THEN <<Digit[n + 1]>> ELSE NumToString(n \div 10) \o <<Digit[(n % 10) + 1]>>

TwoDigit(n) == IF n < 10 THEN <<"0">> \o NumToString(n) ELSE NumToString(n)

\* formatDay / formatMonth / formatYear: the attributes the day selector asks for
DayAttributes(d) ==
  [dataDay |-> NumToString(d.day), dataMonth |-> NumToString(d.month),
   dataYear |-> NumToString(d.year)]

\* dateFormatter ("en-GB", 2-digit day and month, numeric year): `${day}/${month}/${year}`
DateStr(d) ==
  TwoDigit(d.day) \o <<"/">> \o TwoDigit(d.month) \o <<"/">> \o NumToString(d.year)

\* ------------------------------------------------------------------------
\* The remote pages (the Interactive Page collaborator). A site serves a
\* calendar whose k-th day cell is the day today + (k - 1); clicking a ready
\* cell makes the server answer with that day's slot list, which the page
\* shows some time later.
\* ------------------------------------------------------------------------
T1000 == <<"1", "0", ":", "0", "0">>
T1430 == <<"1", "4", ":", "3", "0">>
T1910 == <<"1", "9", ":", "1", "0">>
Raw1430 == <<" ", "1", "4", ":", "3", "0", " ", "-", " ", "1", "6", ":", "0", "0", "\n">>
RawNotAvailable ==
  <<"1", "2", ":", "0", "0", " ", "N", "o", "t", " ", "A", "v", "a", "i", "l", "a", "b", "l", "e">>
RawBlank == <<" ", "\n">>

Li(classList, textContent) == [classList |-> classList, textContent |-> textContent]

NoElement == [exists |-> FALSE, items |-> <<>>]
List(items) == [exists |-> TRUE, items |-> items]

DayCell(status, items) == [status |-> status, items |-> items]

Site(url) ==
  CASE url = "siteC9" ->
         [hasCalendar |-> TRUE, initial |-> List(<<>>),
          days |-> << DayCell("disabled", <<>>),
                      DayCell("ready", <<Li({}, T1000), Li({}, Raw1430)>>),
                      DayCell("ready", <<>>) >>]
    [] url = "siteMixed" ->
         [hasCalendar |-> TRUE, initial |-> NoElement,
          days |-> << DayCell("ready", <<Li({}, RawNotAvailable), Li({"disabled"}, T1000),
                                         Li({"list-group-item-danger"}, T1430),
                                         Li({}, RawBlank)>>),
                      DayCell("ready", <<Li({"slot"}, T1910), Li({"disabled"}, T1000)>>) >>]
    \* the next three open with today selected and its slots listed
    [] url = "siteToday" ->
         [hasCalendar |-> TRUE, initial |-> List(<<Li({}, T1000)>>),
          days |-> << DayCell("ready", <<Li({}, T1000)>>) >>]
    [] url = "siteLate" ->
         [hasCalendar |-> TRUE, initial |-> List(<<Li({}, Raw1430)>>),
          days |-> << DayCell("ready", <<Li({}, Raw1430)>>) >>]
    [] url = "siteEvening" ->
         [hasCalendar |-> TRUE, initial |-> List(<<Li({}, T1910)>>),
          days |-> << DayCell("ready", <<Li({}, T1910)>>) >>]
    [] OTHER ->
         [hasCalendar |-> FALSE, initial |-> NoElement, days |-> <<>>]

\* $eval(".time-selection", el => el.innerHTML).catch(() => ""): the serialized
\* list, the empty string when the element is missing
InnerHTML(content) == IF content.exists THEN content.items ELSE <<>>

\* the predicate of waitForFunction: el && el.innerHTML !== prevHTML
ContentChanged(content, prevHTML) == content.exists /\ content.items # prevHTML

\* ------------------------------------------------------------------------
\* Availability: null, or an object whose keys keep their insertion order
\* ------------------------------------------------------------------------
Null == [null |-> TRUE, entries |-> <<>>]
Obj(entries) == [null |-> FALSE, entries |-> entries]

HasKey(entries, key) == \E n \in 1..Len(entries) : entries[n].date = key

\* roomAvailability[dateStr] = availableSlots
MapSet(entries, key, slots) ==
  IF HasKey(entries, key)
    THEN [n \in 1..Len(entries) |->
            IF entries[n].date = key THEN [date |-> key, slots |-> slots] ELSE entries[n]]
    ELSE Append(entries, [date |-> key, slots |-> slots])

RecordSlotsAlways(entries, key, slots) == MapSet(entries, key, slots)

\* if (availableSlots.length > 0) roomAvailability[dateStr] = availableSlots
RecordSlots(entries, key, slots) ==
  IF Len(slots) > 0 THEN MapSet(entries, key, slots) ELSE entries

VARIABLES
  rt,                    \* a stand-alone withRetries call
  today,                 \* const today = new Date()
  DAYS_AHEAD,            \* Number(process.env.DAYS_AHEAD ?? 14)
  MAX_CONCURRENT_ROOMS,  \* Number(process.env.MAX_CONCURRENT_REQUESTS ?? 1)
  rooms,                 \* JSON.parse(roomsData): <<[name, url], ...>>
  sinceLastRequest,      \* min(Date.now() - _lastRequestAt, GLOBAL_MIN_REQUEST_INTERVAL_MS)
  minReleaseGap,         \* history: smallest time between two releases of the gate
  task,                  \* task[i]: the locals of processRoom(rooms[i]) and of its scan
  page,                  \* page[i]: what the page of task i shows
  activeCount,           \* p-limit: tasks running
  queue,                 \* p-limit: tasks waiting, in input order
  settled,               \* the promises handed to Promise.all
  finished,              \* history: the order in which the tasks settled
  mainPc,
  results,
  notified               \* the messages handed to sendToTelegram, in order

vars == <<rt, today, DAYS_AHEAD, MAX_CONCURRENT_ROOMS, rooms, sinceLastRequest,
          minReleaseGap, task, page, activeCount, queue, settled, finished,
          mainPc, results, notified>>

config == <<today, DAYS_AHEAD, MAX_CONCURRENT_ROOMS, rooms>>
gate == <<sinceLastRequest, minReleaseGap>>
pool == <<activeCount, queue, settled, finished>>
main == <<mainPc, results, notified>>
scanVars == <<config, gate, task, page, pool, main>>

Tasks == DOMAIN task

\* ------------------------------------------------------------------------
\* withRetries(fn, attempts, baseDelay) on its own: fn fails on its first rt.k
\* invocations (the n-th raising the error <<"err", n>>) and returns
\* <<"value", n>> on invocation n > k.
\* ------------------------------------------------------------------------
RetryInputs ==
  [attempts : 0..MaxAttempts,
   baseDelay : {CLICK_BASE_DELAY, SCAN_BASE_DELAY, NAV_BASE_DELAY},
   k : 0..MaxAttempts]

RetryStart(in) ==
  [attempts |-> in.attempts, baseDelay |-> in.baseDelay, k |-> in.k,
   attempt |-> 1, calls |-> 0, waits |-> <<>>,
   status |-> "loop", result |-> <<"none", 0>>]

RetryIdle ==
  [attempts |-> 0, baseDelay |-> 0, k |-> 0, attempt |-> 1, calls |-> 0,
   waits |-> <<>>, status |-> "idle", result |-> <<"none", 0>>]

\* for (let attempt = 1; attempt <= attempts; attempt++) { try { return await fn() }
\* catch (err) { if (attempt === attempts) throw err; const wait = ...; } }
RetryInvoke ==
  /\ rt.status = "loop"
  /\ IF rt.attempt > rt.attempts
       THEN rt' = [rt EXCEPT !.status = "returned", !.result = <<"undefined", 0>>]
       ELSE LET n == rt.calls + 1 IN
            IF n > rt.k
              THEN rt' = [rt EXCEPT !.calls = n, !.status = "returned",
                                    !.result = <<"value", n>>]
              ELSE IF IsLastAttempt(rt.attempt, rt.attempts)
                THEN rt' = [rt EXCEPT !.calls = n, !.status = "threw",
                                      !.result = <<"err", n>>]
                ELSE \E j \in randomInt(JITTER_MS) :
                       rt' = [rt EXCEPT !.calls = n, !.status = "sleeping",
                                !.waits = Append(@, RetryWait(rt.baseDelay, rt.attempt, j))]
  /\ UNCHANGED scanVars

\* await sleep(wait); attempt++
RetrySleepDone ==
  /\ rt.status = "sleeping"
  /\ rt' = [rt EXCEPT !.status = "loop", !.attempt = @ + 1]
  /\ UNCHANGED scanVars

\* ------------------------------------------------------------------------
\* Task i = limit(() => processRoom(rooms[i], limit))
\* ------------------------------------------------------------------------
NewTask ==
  [pc |-> "queued", browser |-> "none", availability |-> Obj(<<>>),
   scanAttempt |-> 1, navAttempt |-> 1, clickAttempt |-> 1, offset |-> 0,
   roomAvailability |-> <<>>, lastKnownTimeHTML |-> <<>>, gateWait |-> 0,
   \* history. path: "clean" while nothing has failed or timed out, "navRetried"
   \* when the one deviation is a navigation that failed twice and then succeeded,
   \* "other" after any other fault or timeout. calTimeout: the calendar wait timed
   \* out. escaped: what reached the catch block of processRoom. probed: the
   \* offsets the scan has located, kept while path is not "other"
   path |-> "clean", calTimeout |-> FALSE, escaped |-> "none", probed |-> <<>>]

NewPage == [timeSelection |-> NoElement, pending |-> <<>>]

Pending == [state |-> "pending", roomName |-> "", availability |-> Null]

Set(i, chg) == task' = [task EXCEPT ![i] = chg @@ @]

\* A step of task i that does not act on the page. Once the scan has returned or
\* thrown, what the page shows is not read again before the next page.goto
\* replaces it (or the browser is closed): it is dropped at that point.
Step(i, chg) ==
  /\ Set(i, chg)
  /\ page' = [page EXCEPT ![i] =
                IF chg.pc \in {"finally", "scanBackoff", "rejected"} THEN NewPage ELSE @]

SiteOf(i) == Site(rooms[i].url)

\* p-limit: the next queued task starts when fewer than `concurrency` are running
HasFreeSlotOffByOne(count, concurrency) == count <= concurrency

HasFreeSlotStarved(count, concurrency) == count < concurrency - 1

HasFreeSlot(count, concurrency) == count < concurrency

PoolStart(i) ==
  /\ task[i].pc = "queued"
  /\ queue # <<>> /\ Head(queue) = i
  /\ HasFreeSlot(activeCount, MAX_CONCURRENT_ROOMS)
  /\ activeCount' = activeCount + 1
  /\ queue' = Tail(queue)
  /\ Set(i, [pc |-> "stagger"])
  /\ UNCHANGED <<rt, config, gate, page, settled, finished, main>>

\* The locals of checkRoomAvailability and of the withRetries calls around it;
\* they are gone once the scan has returned or thrown
ScanLocals ==
  [navAttempt |-> 1, clickAttempt |-> 1, offset |-> 0, roomAvailability |-> <<>>,
   lastKnownTimeHTML |-> <<>>]

Deviation == [path |-> "other", probed |-> <<>>]

\* catch (err) { availability = null } of processRoom
CatchRethrows(where) ==
  [pc |-> "rejected", escaped |-> where] @@ ScanLocals

Catch(where) ==
  [pc |-> "finally", availability |-> Null, escaped |-> where] @@ ScanLocals

\* availability = await withRetries(...) when the scan returned `value`
Return(value) ==
  [pc |-> "finally", availability |-> value, scanAttempt |-> 1] @@ ScanLocals

\* A fault leaves checkRoomAvailability: withRetries(..., 2, 1000) of processRoom
ScanFault(t) ==
  IF IsLastAttempt(t.scanAttempt, SCAN_ATTEMPTS)
    THEN Catch("scan") @@ Deviation
    ELSE [pc |-> "scanBackoff"] @@ Deviation @@ ScanLocals

\* await sleep(STAGGER_START_MS + randomInt(RANDOM_EXTRA_DELAY_MS))
Stagger(i) ==
  /\ task[i].pc = "stagger"
  /\ Step(i, [pc |-> "launch"])
  /\ UNCHANGED <<rt, config, gate, pool, main>>

\* browser = await puppeteer.launch(...)
Launch(i) ==
  /\ task[i].pc = "launch"
  /\ \/ Step(i, [pc |-> "newPage", browser |-> "open"])
     \/ Step(i, Catch("launch") @@ Deviation)
  /\ UNCHANGED <<rt, config, gate, pool, main>>

\* page = await browser.newPage(); then the first attempt of the scan
OpenPage(i) ==
  /\ task[i].pc = "newPage"
  /\ \/ Set(i, [pc |-> "setUserAgent", scanAttempt |-> 1, navAttempt |-> 1])
     \/ Set(i, Catch("newPage") @@ Deviation)
  /\ page' = [page EXCEPT ![i] = NewPage]
  /\ UNCHANGED <<rt, config, gate, pool, main>>

\* await sleep(wait) of the whole-scan withRetries, then the next attempt
ScanBackoff(i) ==
  /\ task[i].pc = "scanBackoff"
  /\ Step(i, [pc |-> "setUserAgent", scanAttempt |-> task[i].scanAttempt + 1,
             navAttempt |-> 1])
  /\ UNCHANGED <<rt, config, gate, pool, main>>

\* await page.setUserAgent(generateUserAgent())
SetUserAgent(i) ==
  /\ task[i].pc = "setUserAgent"
  /\ \/ Step(i, [pc |-> "navGate"])
     \/ Step(i, ScanFault(task[i]))
  /\ UNCHANGED <<rt, config, gate, pool, main>>

\* ------------------------------------------------------------------------
\* enforceGlobalRateLimit, called before page.goto and before the day click
\* ------------------------------------------------------------------------
AfterGate(pc) == IF pc \in {"navGate", "navGateSleep"} THEN "goto" ELSE "click"

GateSleepPc(pc) == IF pc = "navGate" THEN "navGateSleep" ELSE "clickGateSleep"

\* nextAllowed - now, with nextAllowed = _lastRequestAt + GLOBAL_MIN_REQUEST_INTERVAL_MS
GateWait(since) == GLOBAL_MIN_REQUEST_INTERVAL_MS - since

\* The caller is released: _lastRequestAt = Date.now()
Stamp ==
  /\ sinceLastRequest' = 0
  /\ minReleaseGap' = Min(minReleaseGap, sinceLastRequest)

\* if (interval <= 0) return; const now = Date.now(); if (now < nextAllowed)
\* { await sleep(wait) } -- up to the suspension, or to the stamp when no wait is due
GateEnter(i) ==
  /\ task[i].pc \in {"navGate", "clickGate"}
  /\ IF GLOBAL_MIN_REQUEST_INTERVAL_MS <= 0
       THEN Set(i, [pc |-> AfterGate(task[i].pc)]) /\ UNCHANGED gate
       ELSE IF GateWait(sinceLastRequest) > 0
         THEN /\ Set(i, [pc |-> GateSleepPc(task[i].pc),
                         gateWait |-> GateWait(sinceLastRequest)])
              /\ UNCHANGED gate
         ELSE Set(i, [pc |-> AfterGate(task[i].pc)]) /\ Stamp
  /\ UNCHANGED <<rt, config, page, pool, main>>

\* the sleep of the gate has run out: _lastRequestAt = Date.now()
GateWake(i) ==
  /\ task[i].pc \in {"navGateSleep", "clickGateSleep"}
  /\ task[i].gateWait = 0
  /\ Set(i, [pc |-> AfterGate(task[i].pc)])
  /\ Stamp
  /\ UNCHANGED <<rt, config, page, pool, main>>

\* One unit of time passes.
Tick ==
  /\ \/ sinceLastRequest < GLOBAL_MIN_REQUEST_INTERVAL_MS
     \/ \E i \in Tasks : task[i].gateWait > 0
  /\ sinceLastRequest' = Min(sinceLastRequest + 1, GLOBAL_MIN_REQUEST_INTERVAL_MS)
  /\ task' = [i \in Tasks |-> [task[i] EXCEPT !.gateWait = Max(0, @ - 1)]]
  /\ UNCHANGED <<rt, config, minReleaseGap, page, pool, main>>

\* ------------------------------------------------------------------------
\* checkRoomAvailability(page, room)
\* ------------------------------------------------------------------------
PathAfterGoto(path, navAttempt) ==
  IF path = "clean" /\ navAttempt = 1 THEN "clean"
  ELSE IF path = "clean" /\ navAttempt = NAV_ATTEMPTS THEN "navRetried"
  ELSE "other"

\* await page.goto(room.url, ...) inside withRetries(..., 3, 2000); on success the
\* settle pause sleep(randomInt(500) + 200) follows
Goto(i) ==
  /\ task[i].pc = "goto"
  /\ \/ /\ Set(i, [pc |-> "waitCalendar", navAttempt |-> 1,
                        path |-> PathAfterGoto(task[i].path, task[i].navAttempt)])
        /\ page' = [page EXCEPT ![i] =
                      [timeSelection |-> SiteOf(i).initial, pending |-> <<>>]]
     \/ Step(i, IF IsLastAttempt(task[i].navAttempt, NAV_ATTEMPTS)
                   THEN ScanFault(task[i])
                   ELSE [pc |-> "navBackoff"])
  /\ UNCHANGED <<rt, config, gate, pool, main>>

\* await sleep(wait) of the navigation withRetries, then the next attempt
NavBackoff(i) ==
  /\ task[i].pc = "navBackoff"
  /\ Step(i, [pc |-> "navGate", navAttempt |-> task[i].navAttempt + 1])
  /\ UNCHANGED <<rt, config, gate, pool, main>>

EnterDayExclusive(offset, entries) ==
  IF offset < DAYS_AHEAD
    THEN [pc |-> "locate", offset |-> offset, roomAvailability |-> entries]
    ELSE Return(Obj(entries))

\* for (let offset = 0; offset <= DAYS_AHEAD; offset++): enter the body at
\* `offset`, or leave the loop and return roomAvailability
EnterDay(offset, entries) ==
  IF offset <= DAYS_AHEAD
    THEN [pc |-> "locate", offset |-> offset, roomAvailability |-> entries]
    ELSE Return(Obj(entries))

CalendarTimeoutThrows(t) == ScanFault(t) @@ [calTimeout |-> TRUE]

\* catch (e) { return {} } around page.waitForSelector
CalendarTimeout(t) == Return(Obj(<<>>)) @@ [calTimeout |-> TRUE] @@ Deviation

\* try { await page.waitForSelector(...) } catch (e) { return {} }; then the first
\* read of the slot container and the loop's first iteration
WaitCalendar(i) ==
  /\ task[i].pc = "waitCalendar"
  /\ \/ /\ SiteOf(i).hasCalendar
        /\ Step(i, EnterDay(0, <<>>)
                  @@ [lastKnownTimeHTML |-> InnerHTML(page[i].timeSelection)])
     \/ Step(i, CalendarTimeout(task[i]))
  /\ UNCHANGED <<rt, config, gate, pool, main>>

\* page.$(daySelector): the cell whose attributes are those of the date, or 0
QueryDay(i, date) ==
  LET days == SiteOf(i).days
      hits == {k \in 1..Len(days) :
                 DayAttributes(DateAtOffset(today, k - 1)) = DayAttributes(date)}
  IN IF hits = {} THEN 0 ELSE CHOOSE k \in hits : \A h \in hits : k <= h

\* "absent" when page.$ finds no cell, "disabled" when the cell carries one of the
\* disabled markers, "ready" otherwise
DayStatus(i, offset) ==
  LET cell == QueryDay(i, DateAtOffset(today, offset))
  IN IF cell = 0 THEN "absent" ELSE SiteOf(i).days[cell].status

\* const dayElement = await page.$(daySelector); if (!dayElement) continue;
\* const isDisabled = await page.evaluate(...); if (isDisabled) continue;
LocateDay(i) ==
  /\ task[i].pc = "locate"
  /\ LET t == task[i]
         seen == [probed |-> IF t.path = "other" THEN <<>>
                                ELSE Append(t.probed, t.offset)]
     IN \/ Step(i, ScanFault(t) @@ seen)
        \/ /\ DayStatus(i, t.offset) # "ready"
           /\ Step(i, EnterDay(t.offset + 1, t.roomAvailability) @@ seen)
        \/ /\ DayStatus(i, t.offset) = "ready"
           /\ Step(i, [pc |-> "scroll"] @@ seen)
  /\ UNCHANGED <<rt, config, gate, pool, main>>

\* await dayElement.evaluate(el => el.scrollIntoView(...)); await sleep(...)
ScrollIntoView(i) ==
  /\ task[i].pc = "scroll"
  /\ \/ Step(i, [pc |-> "clickGate", clickAttempt |-> 1])
     \/ Step(i, ScanFault(task[i]))
  /\ UNCHANGED <<rt, config, gate, pool, main>>

\* What the server sends for the slot container when the day at `offset` is clicked
ServerAnswer(i, offset) ==
  List(SiteOf(i).days[QueryDay(i, DateAtOffset(today, offset))].items)

ClickFailedThrows(t) ==
  (IF IsLastAttempt(t.clickAttempt, CLICK_ATTEMPTS)
     THEN ScanFault(t)
     ELSE [pc |-> "clickBackoff"]) @@ Deviation

\* dayElement.click() rejects: withRetries backs off, or on its last attempt
\* rethrows into catch (e) { console.warn(...); continue; }
ClickFailed(t) ==
  (IF IsLastAttempt(t.clickAttempt, CLICK_ATTEMPTS)
     THEN EnterDay(t.offset + 1, t.roomAvailability)
     ELSE [pc |-> "clickBackoff"]) @@ Deviation

\* withRetries(() => dayElement.click(), 2, 300) inside try { } catch { continue }.
\* When the click succeeds withRetries returns and its attempt counter is gone;
\* after the last failed attempt the count stays until the next day's click starts
Click(i) ==
  /\ task[i].pc = "click"
  /\ LET t == task[i]
     IN \/ /\ Set(i, [pc |-> "waitUpdate", clickAttempt |-> 1])
           /\ page' = [page EXCEPT ![i].pending = Append(@, ServerAnswer(i, t.offset))]
        \/ Step(i, ClickFailed(t))
  /\ UNCHANGED <<rt, config, gate, pool, main>>

\* await sleep(wait) of the click withRetries, then the next attempt
ClickBackoff(i) ==
  /\ task[i].pc = "clickBackoff"
  /\ Step(i, [pc |-> "click", clickAttempt |-> task[i].clickAttempt + 1])
  /\ UNCHANGED <<rt, config, gate, pool, main>>

\* The page shows the answer to an earlier click.
PageUpdate(i) ==
  /\ task[i].browser = "open"
  /\ page[i].pending # <<>>
  /\ page' = [page EXCEPT ![i] =
                [timeSelection |-> Head(page[i].pending),
                 pending |-> Tail(page[i].pending)]]
  /\ UNCHANGED <<rt, config, gate, task, pool, main>>

\* try { await page.waitForFunction(changed, { timeout }) } catch (e) { }: it
\* returns once the content differs, or times out while it still does not
WaitForUpdate(i) ==
  /\ task[i].pc = "waitUpdate"
  /\ Step(i, [pc |-> "readHTML"]
            @@ (IF ContentChanged(page[i].timeSelection, task[i].lastKnownTimeHTML)
                  THEN [path |-> task[i].path] ELSE Deviation))
  /\ UNCHANGED <<rt, config, gate, pool, main>>

\* lastKnownTimeHTML = await page.$eval(...).catch(() => "")
ReadHTML(i) ==
  /\ task[i].pc = "readHTML"
  /\ Step(i, [pc |-> "scrape", lastKnownTimeHTML |-> InnerHTML(page[i].timeSelection)])
  /\ UNCHANGED <<rt, config, gate, pool, main>>

ScrapeNothingAfterTimeout(i) ==
  /\ task[i].pc = "scrape"
  /\ LET t == task[i]
         dateStr == DateStr(DateAtOffset(today, t.offset))
         availableSlots == IF t.path = "other" THEN <<>>
                           ELSE ScrapeSlots(page[i].timeSelection.items)
     IN \/ Step(i, [pc |-> "pace",
                   roomAvailability |-> RecordSlots(t.roomAvailability, dateStr,
                                                    availableSlots)])
        \/ Step(i, ScanFault(t))
  /\ UNCHANGED <<rt, config, gate, pool, main>>

\* const availableSlots = await page.evaluate(...); if (availableSlots.length > 0)
\* roomAvailability[dateStr] = availableSlots
Scrape(i) ==
  /\ task[i].pc = "scrape"
  /\ LET t == task[i]
         dateStr == DateStr(DateAtOffset(today, t.offset))
         availableSlots == ScrapeSlots(page[i].timeSelection.items)
     IN \/ Step(i, [pc |-> "pace",
                   roomAvailability |-> RecordSlots(t.roomAvailability, dateStr,
                                                    availableSlots)])
        \/ Step(i, ScanFault(t))
  /\ UNCHANGED <<rt, config, gate, pool, main>>

\* await sleep(Math.max(100, DAY_CHECK_BASE_MS + jitter - dayElapsed)); offset++
Pace(i) ==
  /\ task[i].pc = "pace"
  /\ Step(i, EnterDay(task[i].offset + 1, task[i].roomAvailability))
  /\ UNCHANGED <<rt, config, gate, pool, main>>

\* ------------------------------------------------------------------------
\* processRoom, after the scan; the pool; the main script
\* ------------------------------------------------------------------------
CloseBrowserForgotten(browser) == browser

\* if (browser) await browser.close().catch(() => {})
CloseBrowser(browser) == IF browser = "open" THEN "closed" ELSE browser

FinallyThenReturn(i) ==
  /\ task[i].pc = "finally"
  /\ Set(i, [pc |-> "done", browser |-> CloseBrowser(task[i].browser)])
  /\ page' = [page EXCEPT ![i] = NewPage]
  /\ settled' = [settled EXCEPT ![i] =
                   [state |-> "fulfilled", roomName |-> rooms[i].name,
                    availability |-> task[i].availability]]
  /\ finished' = Append(finished, i)
  /\ activeCount' = activeCount - 1
  /\ UNCHANGED <<rt, config, gate, queue, main>>

\* finally { if (browser) await browser.close().catch(() => {}) }
Finally(i) ==
  /\ task[i].pc = "finally"
  /\ Set(i, [pc |-> "cooldown", browser |-> CloseBrowser(task[i].browser)])
  /\ page' = [page EXCEPT ![i] = NewPage]
  /\ UNCHANGED <<rt, config, gate, pool, main>>

\* MIN_DELAY_BETWEEN_CHECKS_MS + randomInt(RANDOM_EXTRA_DELAY_MS)
CooldownMs(jitter) == MIN_DELAY_BETWEEN_CHECKS_MS + jitter

\* await sleep(MIN_DELAY_BETWEEN_CHECKS_MS + ...); return { roomName, availability };
\* the promise of the task is fulfilled and p-limit frees the slot
Cooldown(i) ==
  /\ task[i].pc = "cooldown"
  /\ Set(i, [pc |-> "done"])
  /\ settled' = [settled EXCEPT ![i] =
                   [state |-> "fulfilled", roomName |-> rooms[i].name,
                    availability |-> task[i].availability]]
  /\ finished' = Append(finished, i)
  /\ activeCount' = activeCount - 1
  /\ UNCHANGED <<rt, config, gate, page, queue, main>>

\* Promise.all: the values in the order of the promises
InCompletionOrder(promises, order) ==
  [n \in 1..Len(order) |->
     [roomName |-> promises[order[n]].roomName,
      availability |-> promises[order[n]].availability]]

PromiseAll(promises, order) ==
  [n \in 1..Len(promises) |->
     [roomName |-> promises[n].roomName, availability |-> promises[n].availability]]

\* const results = await Promise.all(rooms.map(...)) inside try { } catch (error)
AwaitAll ==
  /\ mainPc = "awaitAll"
  /\ \/ /\ \A i \in Tasks : settled[i].state = "fulfilled"
        /\ results' = PromiseAll(settled, finished)
        /\ mainPc' = "report"
     \/ /\ \E i \in Tasks : task[i].pc = "rejected"
        /\ mainPc' = "criticalError"
        /\ UNCHANGED results
  /\ UNCHANGED <<rt, config, gate, task, page, pool, notified>>

\* slots.join(", ")
RECURSIVE Join(_, _)
Join(slots, sep) ==
  IF slots = <<>> THEN <<>>
  ELSE IF Len(slots) = 1 THEN Head(slots)
  ELSE Head(slots) \o sep \o Join(Tail(slots), sep)

\* message += `\n<b>${dateStr}</b>: ${slots.join(", ")}` for each entry, in
\* the order of Object.entries
RECURSIVE RenderLines(_)
RenderLines(entries) ==
  IF entries = <<>> THEN <<>>
  ELSE <<"\n<b>">> \o Head(entries).date \o <<"</b>: ">>
         \o Join(Head(entries).slots, <<",", " ">>) \o RenderLines(Tail(entries))

\* let message = `<house emoji> <b>${roomName}</b>\n\nAvailable slots:\n`, then
\* the lines; the emoji is written U+1F3E0 here
RenderMessage(result) ==
  <<"U+1F3E0", " <b>", result.roomName, "</b>\n\nAvailable slots:\n">>
    \o RenderLines(result.availability.entries)

\* if (!availability || Object.keys(availability).length === 0) continue
Skipped(result) ==
  result.availability.null \/ Len(result.availability.entries) = 0

\* for (const { roomName, availability } of results) { ... }: the messages the loop
\* renders, one for each result it does not skip
RECURSIVE RenderedMessages(_)
RenderedMessages(rs) ==
  IF rs = <<>> THEN <<>>
  ELSE (IF Skipped(Head(rs)) THEN <<>> ELSE <<RenderMessage(Head(rs))>>)
         \o RenderedMessages(Tail(rs))

\* The reporting loop. Its last statement is the comment
\* `// await sendToTelegram(message);`: each rendered message is dropped when its
\* iteration ends and nothing reaches sendToTelegram
Report ==
  /\ mainPc = "report"
  /\ mainPc' = "complete"
  /\ UNCHANGED <<rt, config, gate, task, page, pool, results, notified>>

Next ==
  \/ \E i \in Tasks : PoolStart(i)
  \/ \E i \in Tasks : Stagger(i)
  \/ \E i \in Tasks : Launch(i)
  \/ \E i \in Tasks : OpenPage(i)
  \/ \E i \in Tasks : ScanBackoff(i)
  \/ \E i \in Tasks : SetUserAgent(i)
  \/ \E i \in Tasks : GateEnter(i)
  \/ \E i \in Tasks : GateWake(i)
  \/ \E i \in Tasks : Goto(i)
  \/ \E i \in Tasks : NavBackoff(i)
  \/ \E i \in Tasks : WaitCalendar(i)
  \/ \E i \in Tasks : LocateDay(i)
  \/ \E i \in Tasks : ScrollIntoView(i)
  \/ \E i \in Tasks : Click(i)
  \/ \E i \in Tasks : ClickBackoff(i)
  \/ \E i \in Tasks : PageUpdate(i)
  \/ \E i \in Tasks : WaitForUpdate(i)
  \/ \E i \in Tasks : ReadHTML(i)
  \/ \E i \in Tasks : Scrape(i)
  \/ \E i \in Tasks : Pace(i)
  \/ \E i \in Tasks : Finally(i)
  \/ \E i \in Tasks : Cooldown(i)
  \/ Tick
  \/ AwaitAll
  \/ Report

\* ------------------------------------------------------------------------
\* Initial states
\* ------------------------------------------------------------------------
RoomNames == <<"A", "B", "C", "D">>
PoolUrls == <<"siteToday", "siteLate", "siteEvening", "siteToday">>

RoomList(n, urls) == [i \in 1..n |-> [name |-> RoomNames[i], url |-> urls[i]]]

InitRun(roomList, daysAhead, concurrency, day0) ==
  /\ rt = RetryIdle
  /\ today = day0
  /\ DAYS_AHEAD = daysAhead
  /\ MAX_CONCURRENT_ROOMS = concurrency
  /\ rooms = roomList
  /\ sinceLastRequest = GLOBAL_MIN_REQUEST_INTERVAL_MS
  /\ minReleaseGap = GLOBAL_MIN_REQUEST_INTERVAL_MS
  /\ task = [i \in 1..Len(roomList) |-> NewTask]
  /\ page = [i \in 1..Len(roomList) |-> NewPage]
  /\ activeCount = 0
  /\ queue = [i \in 1..Len(roomList) |-> i]
  /\ settled = [i \in 1..Len(roomList) |-> Pending]
  /\ finished = <<>>
  /\ mainPc = "awaitAll"
  /\ results = <<>>
  /\ notified = <<>>

\* The pool: up to MaxRooms rooms, one or two at a time, a one-day window
Init ==
  \E n \in 1..MaxRooms, c \in 1..2 :
    InitRun(RoomList(n, PoolUrls), 0, c,
            [day |-> 2, month |-> 11, year |-> 2026])

Spec == Init /\ [][Next]_vars

\* The pool under the event loop's scheduling: a continuation that is ready, a timer
\* that has run out and a page operation that is under way are eventually taken
FairSpec == Init /\ [][Next]_vars /\ WF_vars(Next)

\* One room scanned over a three-day window
ScanInit ==
  \E url \in {"siteC9", "siteMixed", "siteDown"},
     day0 \in {[day |-> 2, month |-> 11, year |-> 2026],
               [day |-> 30, month |-> 12, year |-> 2026]} :
    InitRun(RoomList(1, <<url>>), 2, 1, day0)

SpecScan == ScanInit /\ [][Next]_vars

\* withRetries on its own
RetryInit ==
  /\ rt \in {RetryStart(in) : in \in RetryInputs}
  /\ today = [day |-> 2, month |-> 11, year |-> 2026]
  /\ DAYS_AHEAD = 0
  /\ MAX_CONCURRENT_ROOMS = 1
  /\ rooms = <<>>
  /\ sinceLastRequest = GLOBAL_MIN_REQUEST_INTERVAL_MS
  /\ minReleaseGap = GLOBAL_MIN_REQUEST_INTERVAL_MS
  /\ task = <<>>
  /\ page = <<>>
  /\ activeCount = 0
  /\ queue = <<>>
  /\ settled = <<>>
  /\ finished = <<>>
  /\ mainPc = "idle"
  /\ results = <<>>
  /\ notified = <<>>

RetryNext == RetryInvoke \/ RetrySleepDone

SpecRetry == RetryInit /\ [][RetryNext]_vars

\* ------------------------------------------------------------------------
\* Properties
\* ------------------------------------------------------------------------
Settled == {"finally", "cooldown", "done"}

\* C1: any two consecutive releases of the request gate, by whichever tasks, are
\* at least GLOBAL_MIN_REQUEST_INTERVAL_MS apart (minReleaseGap is the smallest
\* separation between consecutive releases seen so far)
C1_ReleasesSeparated == minReleaseGap >= GLOBAL_MIN_REQUEST_INTERVAL_MS

\* C2: when the operation fails k < attempts times and then succeeds, withRetries
\* invokes it exactly k + 1 times, returns the value of the last invocation and
\* has slept k times, the n-th sleep within
\* [baseDelay * 2^(n-1), baseDelay * 2^(n-1) + JITTER_MS), bounds that grow
\* strictly with n
C2_RetryThenSucceed ==
  (rt.status = "returned" /\ rt.k < rt.attempts) =>
    /\ rt.calls = rt.k + 1
    /\ rt.result = <<"value", rt.k + 1>>
    /\ Len(rt.waits) = rt.k
    /\ \A n \in 1..Len(rt.waits) :
         /\ rt.baseDelay * Pow2(n - 1) <= rt.waits[n]
         /\ rt.waits[n] < rt.baseDelay * Pow2(n - 1) + JITTER_MS
         /\ n > 1 => rt.baseDelay * Pow2(n - 2) < rt.baseDelay * Pow2(n - 1)

C2_Witness ==
  /\ rt.status = "returned" /\ rt.k = 3 /\ rt.attempts = 4
  /\ rt.calls = 4 /\ Len(rt.waits) = 3
  /\ rt.waits[3] >= 4 * rt.baseDelay

\* C3: when the operation fails on every one of attempts >= 1 invocations,
\* withRetries invokes it exactly `attempts` times, sleeps exactly attempts - 1
\* times, never returns, and ends by raising the error of the last invocation
C3_ExhaustedRethrows ==
  (rt.status # "idle" /\ rt.attempts >= 1 /\ rt.k >= rt.attempts) =>
    /\ rt.status # "returned"
    /\ rt.calls <= rt.attempts
    /\ Len(rt.waits) <= rt.attempts - 1
    /\ rt.status = "threw" =>
         /\ rt.calls = rt.attempts
         /\ Len(rt.waits) = rt.attempts - 1
         /\ rt.result = <<"err", rt.attempts>>

C3_Witness ==
  /\ rt.status = "threw" /\ rt.attempts = 3 /\ rt.k >= 3
  /\ rt.calls = 3 /\ Len(rt.waits) = 2 /\ rt.result = <<"err", 3>>

NonEmptySlots(entries) == \A n \in 1..Len(entries) : Len(entries[n].slots) > 0

\* The dates of the window on which room i's calendar has a selectable day
OpenDates(i) ==
  {DateStr(DateAtOffset(today, o)) : o \in {d \in 0..DAYS_AHEAD : DayStatus(i, d) = "ready"}}

\* C4: at every moment of a scan and in every availability handed on (returned by
\* the scan, returned by processRoom, collected by Promise.all), every date key
\* maps to a non-empty list of slots, and only dates of selectable days have a key
C4_NoEmptyEntries ==
  /\ \A i \in Tasks :
       /\ NonEmptySlots(task[i].roomAvailability)
       /\ NonEmptySlots(task[i].availability.entries)
       /\ NonEmptySlots(settled[i].availability.entries)
       /\ \A n \in 1..Len(task[i].roomAvailability) :
            task[i].roomAvailability[n].date \in OpenDates(i)
       /\ \A n \in 1..Len(task[i].availability.entries) :
            task[i].availability.entries[n].date \in OpenDates(i)
  /\ \A n \in 1..Len(results) : NonEmptySlots(results[n].availability.entries)

\* A day whose list held only filtered-out items was scraped and left no key, the
\* next day's slot was recorded
C4_Witness ==
  /\ mainPc = "report"
  /\ rooms[1].url = "siteMixed" /\ task[1].path = "clean"
  /\ task[1].probed = <<0, 1, 2>>
  /\ results[1].availability = Obj(<<[date |-> <<"0", "3", "/", "1", "1", "/", "2", "0", "2", "6">>,
                                      slots |-> <<T1910>>]>>)

\* C5: a calendar wait that times out ends the scan with an empty map of slots,
\* which is not the failed value (null); the failed value is produced only when the
\* launch or the page creation fails or a fault leaves the scan on its last attempt
C5_TimeoutIsEmptyNotFailed ==
  \A i \in Tasks :
    /\ task[i].calTimeout =>
         /\ task[i].pc \in Settled
         /\ task[i].availability = Obj(<<>>)
         /\ task[i].availability # Null
         /\ settled[i].state = "fulfilled" => settled[i].availability = Obj(<<>>)
    /\ task[i].availability = Null =>
         /\ task[i].pc \in Settled
         /\ \/ task[i].escaped \in {"launch", "newPage"}
            \/ task[i].escaped = "scan" /\ task[i].scanAttempt = SCAN_ATTEMPTS
    /\ task[i].escaped # "none" => task[i].availability = Null

C5_Witness ==
  /\ mainPc = "report"
  /\ task[1].calTimeout /\ task[1].escaped = "none"
  /\ results[1] = [roomName |-> "A", availability |-> Obj(<<>>)]

\* C6: a fault in one room's task never reaches the main script: no task promise
\* rejects, the run reports a result for every room, a room's result is the failed
\* value exactly when its own task caught a fault, and every other room's result
\* is what that room's own task produced from its own site
C6_FaultsIsolated ==
  /\ mainPc # "criticalError"
  /\ \A i \in Tasks :
       /\ task[i].pc # "rejected"
       /\ settled[i].state = "fulfilled" =>
            /\ settled[i].roomName = rooms[i].name
            /\ settled[i].availability = task[i].availability
            /\ (settled[i].availability = Null) <=> (task[i].escaped # "none")
            /\ \A n \in 1..Len(settled[i].availability.entries) :
                 settled[i].availability.entries[n].slots
                   = ScrapeSlots(SiteOf(i).days[1].items)
  /\ mainPc = "report" =>
       /\ Len(results) = Len(rooms)
       /\ \A i \in Tasks :
            results[i] = [roomName |-> rooms[i].name,
                          availability |-> task[i].availability]

\* Two rooms in flight together: B's scan failed, A's result carries A's slots
C6_Witness ==
  /\ mainPc = "report"
  /\ MAX_CONCURRENT_ROOMS = 2 /\ Len(rooms) >= 2
  /\ task[2].escaped = "scan" /\ results[2].availability = Null
  /\ task[1].escaped = "none"
  /\ results[1].availability.entries # <<>>
  /\ finished[1] = 2

Running == {i \in Tasks : task[i].pc \notin {"queued", "done", "rejected"}}

\* C7: never more than MAX_CONCURRENT_ROOMS tasks are running, the pool's count
\* is the number of running tasks, and the tasks still queued are the last ones
\* of the input, in order
C7_ConcurrencyBounded ==
  /\ Cardinality(Running) <= MAX_CONCURRENT_ROOMS
  /\ activeCount = Cardinality(Running)
  /\ \A n \in 1..Len(queue) :
       /\ task[queue[n]].pc = "queued"
       /\ queue[n] = Len(rooms) - Len(queue) + n

\* The pool is full and a room is waiting for a slot
C7_Witness ==
  /\ Cardinality(Running) = MAX_CONCURRENT_ROOMS
  /\ queue # <<>>
  /\ \E i \in Tasks : task[i].pc = "queued"
  /\ \E i \in Running : task[i].pc = "cooldown"

\* C8: the collected results are in the order of the configured rooms, the i-th
\* being the i-th room's, whatever the order in which the tasks completed
C8_ResultsInInputOrder ==
  mainPc = "report" =>
    /\ Len(results) = Len(rooms)
    /\ \A i \in 1..Len(rooms) :
         /\ results[i].roomName = rooms[i].name
         /\ results[i].availability = settled[i].availability

\* B completed before A, and A's result still comes first
C8_Witness ==
  /\ mainPc = "report"
  /\ Len(finished) >= 2 /\ finished[1] = 2 /\ finished[2] = 1
  /\ results[1].roomName = "A" /\ results[2].roomName = "B"

\* The key of the day after `today`, for the two start dates of the scan
TomorrowKey ==
  IF today = [day |-> 2, month |-> 11, year |-> 2026]
    THEN <<"0", "3", "/", "1", "1", "/", "2", "0", "2", "6">>
    ELSE <<"3", "1", "/", "1", "2", "/", "2", "0", "2", "6">>

\* C9: with DAYS_AHEAD = 2 and a calendar whose day 0 is disabled, whose day 1
\* offers 10:00 and 14:30 and whose day 2 offers nothing, a scan in which nothing
\* fails or times out probes the offsets 0, 1, 2 and returns the map with the single
\* key of day 1 and the slots 10:00, 14:30
C9_ThreeDayScan ==
  \A i \in Tasks :
    (/\ rooms[i].url = "siteC9" /\ DAYS_AHEAD = 2
     /\ task[i].path = "clean" /\ task[i].pc \in Settled) =>
      /\ task[i].probed = <<0, 1, 2>>
      /\ task[i].availability =
           Obj(<<[date |-> TomorrowKey, slots |-> <<T1000, T1430>>]>>)
      /\ settled[i].state = "fulfilled" =>
           settled[i].availability = task[i].availability

C9_Witness ==
  /\ mainPc = "report"
  /\ rooms[1].url = "siteC9" /\ DAYS_AHEAD = 2 /\ task[1].path = "clean"
  /\ today = [day |-> 30, month |-> 12, year |-> 2026]
  /\ Len(results[1].availability.entries) = 1
  /\ results[1].availability.entries[1].date = TomorrowKey
  /\ results[1].availability.entries[1].slots = <<T1000, T1430>>

\* C10, the state part: a scan whose only deviation is a navigation that failed
\* twice and succeeded the third time is still in its first attempt, has not been
\* backed off by the whole-scan retry, and does not end in the failed value
NavRetriedInAttemptOne ==
  \A i \in Tasks :
    task[i].path = "navRetried" =>
      /\ task[i].scanAttempt = 1
      /\ task[i].pc \notin {"scanBackoff", "rejected", "queued", "stagger", "launch"}
      /\ task[i].escaped = "none"
      /\ task[i].availability # Null
      /\ settled[i].state = "fulfilled" => settled[i].availability # Null

\* C10, the step part: a navigation that fails on its first or second attempt is
\* retried inside the scan, and the third attempt's success continues the scan
NavFailureStaysInScan ==
  \A i \in Tasks :
    (task[i].pc = "goto" /\ task[i].navAttempt < NAV_ATTEMPTS) =>
      /\ task'[i].pc \in {"goto", "waitCalendar", "navBackoff"}
      /\ task'[i].scanAttempt = task[i].scanAttempt

\* C10: two failed navigation attempts followed by a successful third are absorbed
\* by the navigation retry (budget 3): the whole-scan retry is not triggered and
\* the result is not the failed value
C10_NavRetryAbsorbed == [] NavRetriedInAttemptOne /\ [][NavFailureStaysInScan]_vars

C10_Witness ==
  /\ mainPc = "report"
  /\ task[1].path = "navRetried" /\ task[1].scanAttempt = 1
  /\ rooms[1].url = "siteC9"
  /\ results[1].availability =
       Obj(<<[date |-> TomorrowKey, slots |-> <<T1000, T1430>>]>>)

\* C11: when the reporting loop has ended, the Notifier has been handed exactly one
\* message for every result with a non-empty map, rendered with the room's name and
\* each date with its slots in insertion order, in the order of the results, and
\* none for a failed result or an empty map
C11_NonEmptyResultsNotified ==
  mainPc = "complete" => notified = RenderedMessages(results)

IsPrefix(a, b) == Len(a) <= Len(b) /\ SubSeq(b, 1, Len(a)) = a

\* The steps of one day's probe that can raise a fault
DayProbe == {"locate", "scroll", "click", "scrape"}

\* C12: no step of a day's probe, faulty or not, makes the room's availability the
\* failed value, sends the scan into the whole-scan retry, or loses an entry already
\* recorded: the entries so far stay at the front of the map being built or of the
\* map returned
C12_DayFaultKeepsFound ==
  [][\A i \in Tasks :
       task[i].pc \in DayProbe =>
         /\ task'[i].availability # Null
         /\ task'[i].pc # "scanBackoff"
         /\ \/ IsPrefix(task[i].roomAvailability, task'[i].roomAvailability)
            \/ IsPrefix(task[i].roomAvailability, task'[i].availability.entries)]_vars

\* C13: a task that has reached its cool-down sleep or has returned holds no open
\* browser, and holds a closed one whenever its launch succeeded; an open browser
\* belongs to a task that still holds its pool slot; once the results are collected
\* no browser is open
C13_SessionsClosed ==
  /\ \A i \in Tasks :
       /\ task[i].pc \in {"cooldown", "done"} =>
            /\ task[i].browser # "open"
            /\ task[i].escaped # "launch" => task[i].browser = "closed"
       /\ settled[i].state = "fulfilled" => task[i].browser # "open"
       /\ task[i].browser = "open" => i \in Running
  /\ mainPc \in {"report", "complete"} => \A i \in Tasks : task[i].browser # "open"

\* The run has ended; room A's page creation failed and room B's scan failed on
\* both attempts, and both browsers are closed
C13_Witness ==
  /\ mainPc = "complete" /\ Len(rooms) >= 2
  /\ task[1].escaped = "newPage" /\ task[1].browser = "closed"
  /\ task[2].escaped = "scan" /\ task[2].browser = "closed"

\* C14, the step part: a click that fails on its last attempt leaves the scan in
\* the same attempt with the map unchanged and no key for the day, and goes on to
\* locate the next offset, or returns the map when the day was the window's last
ExhaustedClickSkipsDay ==
  \A i \in Tasks :
    (/\ task[i].pc = "click" /\ task[i].clickAttempt = CLICK_ATTEMPTS
     /\ task'[i].pc \notin {"click", "waitUpdate"}) =>
      /\ task'[i].escaped = "none" /\ task'[i].availability # Null
      /\ ~HasKey(task[i].roomAvailability, DateStr(DateAtOffset(today, task[i].offset)))
      /\ IF task[i].offset < DAYS_AHEAD
           THEN /\ task'[i].pc = "locate"
                /\ task'[i].scanAttempt = task[i].scanAttempt
                /\ task'[i].offset = task[i].offset + 1
                /\ task'[i].roomAvailability = task[i].roomAvailability
           ELSE /\ task'[i].pc = "finally"
                /\ task'[i].availability = Obj(task[i].roomAvailability)

\* C14, the state part: the scan that locates a day right after the previous day's
\* click used up its attempts has no key for that previous day
SkippedDayHasNoEntry ==
  \A i \in Tasks :
    (task[i].pc = "locate" /\ task[i].clickAttempt = CLICK_ATTEMPTS) =>
      /\ task[i].offset >= 1
      /\ ~HasKey(task[i].roomAvailability,
                 DateStr(DateAtOffset(today, task[i].offset - 1)))

\* C14: a day-selection click that fails on both attempts skips that day only: no
\* entry for its date, no extraction, the fault stays inside the scan and the later
\* offsets of the window are still probed
C14_ClickFailureSkipsDay == [] SkippedDayHasNoEntry /\ [][ExhaustedClickSkipsDay]_vars

\* Day 1's click failed twice; the scan, still in its first attempt, is locating
\* day 2 with nothing recorded for day 1
C14_Witness ==
  /\ rooms[1].url = "siteC9"
  /\ task[1].pc = "locate" /\ task[1].offset = 2
  /\ task[1].clickAttempt = CLICK_ATTEMPTS /\ task[1].scanAttempt = 1
  /\ task[1].roomAvailability = <<>>

\* C15: the scan moves on to locate the next day only out of the pacing sleep that
\* ends the current day's iteration, whichever path the iteration took
C15_EveryDayPaced ==
  [][\A i \in Tasks :
       (task'[i].pc = "locate" /\ task'[i].offset = task[i].offset + 1) =>
         task[i].pc = "pace"]_vars

\* C16: every navigation attempt and every click attempt, retries included, is
\* issued by a task that has just been released by the rate limiter's gate
C16_EveryAttemptGated ==
  [][\A i \in Tasks :
       (task'[i].pc \in {"goto", "click"} /\ task[i].pc # task'[i].pc) =>
         task[i].pc \in {"navGate", "navGateSleep", "clickGate", "clickGateSleep"}]_vars

\* C17, the state part: a task whose scan has concluded and that has not finished
\* its cool-down still holds its pool slot and its promise is still pending; the
\* cool-down is never shorter than the configured minimum
SlotHeldThroughCooldown ==
  /\ \A i \in Tasks :
       task[i].pc \in {"finally", "cooldown"} =>
         /\ i \in Running
         /\ settled[i].state = "pending"
  /\ \A j \in randomInt(RANDOM_EXTRA_DELAY_MS) :
       CooldownMs(j) >= MIN_DELAY_BETWEEN_CHECKS_MS

\* C17, the step part: a concluded scan, failed or not, goes on to the cool-down
\* sleep; a task returns, and the pool's count drops, only out of that sleep
ReleaseOnlyAfterCooldown ==
  /\ \A i \in Tasks :
       /\ task[i].pc = "finally" => task'[i].pc \in {"finally", "cooldown"}
       /\ (task'[i].pc = "done" /\ task[i].pc # "done") => task[i].pc = "cooldown"
       /\ (settled'[i].state = "fulfilled" /\ settled[i].state # "fulfilled") =>
            task[i].pc = "cooldown"
  /\ activeCount' < activeCount =>
       \E i \in Tasks : task[i].pc = "cooldown" /\ task'[i].pc = "done"
  /\ Len(queue') < Len(queue) => activeCount < MAX_CONCURRENT_ROOMS

\* C17: after its scan concludes, with a result or with the failed value, a task
\* sleeps the cool-down before its pool slot is released, so a queued room starts
\* only after the cool-down of the task whose slot it takes
C17_CooldownBeforeRelease == [] SlotHeldThroughCooldown /\ [][ReleaseOnlyAfterCooldown]_vars

\* Room A's scan failed, A is in its cool-down sleep and room B is still queued
C17_Witness ==
  /\ MAX_CONCURRENT_ROOMS = 1 /\ Len(rooms) >= 2
  /\ task[1].pc = "cooldown" /\ task[1].availability = Null
  /\ task[2].pc = "queued" /\ queue # <<>> /\ Head(queue) = 2

GatePcs == {"navGate", "navGateSleep", "clickGate", "clickGateSleep"}

\* The main script is past Promise.all only when every room's promise is fulfilled,
\* with one result per room, each task having settled once
ReturnsAfterAll ==
  mainPc \in {"report", "complete"} =>
    /\ \A i \in Tasks : settled[i].state = "fulfilled" /\ task[i].pc = "done"
    /\ Len(results) = Len(rooms)
    /\ Len(finished) = Len(rooms)
    /\ \A i \in Tasks : Cardinality({n \in 1..Len(finished) : finished[n] = i}) = 1

\* The run is over: the reporting has ended and every task has returned, so none
\* is queued, none is waiting at the gate and every promise is fulfilled
Terminated ==
  /\ mainPc = "complete"
  /\ \A i \in Tasks :
       /\ task[i].pc = "done" /\ task[i].pc \notin GatePcs \cup {"queued"}
       /\ settled[i].state = "fulfilled"

\* C18: under fair scheduling the run terminates: eventually, and from then on, the
\* main script is at the end of its reporting with every room's task returned (so
\* every queued room got a pool slot and every caller of the gate was released) and
\* every promise fulfilled; and the main script moves past Promise.all only after
\* all rooms have produced their one result
C18_RunTerminates == [] ReturnsAfterAll /\ <>[] Terminated

\* The run is over; room B had to wait for room A's slot and went through the
\* gate's sleep
C18_Witness ==
  /\ mainPc = "complete"
  /\ MAX_CONCURRENT_ROOMS = 1 /\ Len(rooms) = MaxRooms
  /\ finished = [n \in 1..MaxRooms |-> n]
  /\ \A i \in Tasks : settled[i].state = "fulfilled"

\* The slots a map holds under a key, none when the key is absent
SlotsUnder(entries, key) ==
  IF HasKey(entries, key)
    THEN (CHOOSE e \in {entries[n] : n \in 1..Len(entries)} : e.date = key).slots
    ELSE <<>>

DateKey(i) == DateStr(DateAtOffset(today, task[i].offset))

\* The wait for the update, whether it ends by a change or by its timeout, leaves
\* the page as it is, and the extraction that follows records under the day's key
\* exactly the open slots of the content the page shows at that moment, leaving
\* the page and the other keys as they are
ExtractionReadsCurrentContent ==
  \A i \in Tasks :
    /\ (task[i].pc = "waitUpdate" /\ task'[i].pc = "readHTML") => page'[i] = page[i]
    /\ (task[i].pc = "scrape" /\ task'[i].pc = "pace") =>
         /\ page'[i] = page[i]
         /\ SlotsUnder(task'[i].roomAvailability, DateKey(i))
              = ScrapeSlots(page[i].timeSelection.items)
         /\ \A n \in 1..Len(task[i].roomAvailability) :
              task[i].roomAvailability[n].date # DateKey(i) =>
                task'[i].roomAvailability[n] = task[i].roomAvailability[n]

\* C19: what a day's probe extracts is decided by the content the page shows at the
\* extraction and by nothing else, so two extractions from the same content give
\* the same slots; how the wait for the update ended, by a change or by its
\* timeout, alters neither the content nor what is extracted from it
C19_ExtractionFromContent == [][ExtractionReadsCurrentContent]_vars

\* Day 1's wait timed out (the content read after it is still the initial, empty
\* one), the update arrived before the extraction, and its slots are recorded
C19_Witness ==
  /\ rooms[1].url = "siteC9"
  /\ task[1].pc = "pace" /\ task[1].offset = 1
  /\ task[1].lastKnownTimeHTML = <<>>
  /\ task[1].roomAvailability = <<[date |-> TomorrowKey, slots |-> <<T1000, T1430>>]>>

\* C20: every entry of the map a scan is building holds, under the key of a
\* selectable day of the window, the open slots of the list the server sends in
\* answer to the click on that same day
C20_SlotsFromOwnDay ==
  \A i \in Tasks :
    \A n \in 1..Len(task[i].roomAvailability) :
      \E o \in 0..DAYS_AHEAD :
        /\ DayStatus(i, o) = "ready"
        /\ task[i].roomAvailability[n].date = DateStr(DateAtOffset(today, o))
        /\ task[i].roomAvailability[n].slots = ScrapeSlots(ServerAnswer(i, o).items)

====
